---- MODULE Spec2Model ----
(***************************************************************************)
(* The carbon-credit ledger of carboncredits.py: the emission factor       *)
(* table, calculate_credits, the session ledger (st.session_state.data),   *)
(* the mock seeder, the reset callback, the sidebar form and the           *)
(* aggregations of the dashboard.                                          *)
(*                                                                         *)
(* Units.  Quantities are held in hundredths (the form's number_input has  *)
(* step 0.01), emission factors in ten-thousandths of a kg, so credits are *)
(* exact integers in units of 10^-6 kg: the model computes over rationals, *)
(* not IEEE doubles.  Time is counted in ticks of half a second, so that   *)
(* the truncation done by strftime("%Y-%m-%d %H:%M:%S") is visible.        *)
(***************************************************************************)
EXTENDS Integers, Sequences, FiniteSets, TLC

VARIABLES
    has_data,               \* "data" in st.session_state
    data,                   \* st.session_state.data: the ledger, a sequence of rows
    data_reset,             \* st.session_state.data_reset (absent reads as FALSE)
    uuid_count,             \* how many uuid4() values have been issued
    end_date,               \* populate_mock_data's end_date of the last seeding
    pc,                     \* position of the session's script thread
    trigger,                \* the widget event that started the current run
    message,                \* what the sidebar form last rendered (st.error / st.success)
    total_credits,          \* render_main_dashboard: df["Credits Generated"].sum()
    top_contributor,        \* render_main_dashboard: leaderboard.index[0]
    user_leaderboard_data,  \* render_main_dashboard: groupby('Name').sum().nlargest(10)
    cumulative_credits,     \* render_main_dashboard: per-date sums, cumsum
    role_activity_melted,   \* render_main_dashboard: pivot_table(...).melt(...)
    dashboard_error,        \* the exception that ended render_main_dashboard, if any
    call,                   \* one call of calculate_credits: inputs and result
    tip                     \* one call of generate_personalized_tip: inputs, position, result

vars == <<has_data, data, data_reset, uuid_count, end_date, pc, trigger, message,
          total_credits, top_contributor, user_leaderboard_data, cumulative_credits,
          role_activity_melted, dashboard_error, call, tip>>

ledger_vars == <<has_data, data, data_reset, uuid_count, end_date>>

view_vars == <<total_credits, top_contributor, user_leaderboard_data,
               cumulative_credits, role_activity_melted, dashboard_error>>

-----------------------------------------------------------------------------
(* Bounds of the model *)

\* Rows drawn by one seeding (the program's default is num_entries=80).
num_entries == 2

\* uuid4() values the session may draw: caps live submissions and resets.
MaxUuid == 6

-----------------------------------------------------------------------------
(* Configuration *)

\* factor in 10^-4 kg CO2e per unit
EMISSION_FACTORS ==
    ("Electricity saved" :> [factor |-> 8200, unit |-> "kWh"]) @@
    ("Walk/Bike Commute" :> [factor |-> 1500, unit |-> "km"]) @@
    ("Waste recycled" :> [factor |-> 9000, unit |-> "kg"]) @@
    ("Trees planted" :> [factor |-> 217700, unit |-> "count"]) @@
    ("Solar power used" :> [factor |-> 8000, unit |-> "kWh"]) @@
    ("Paper Saved" :> [factor |-> 50, unit |-> "sheets"]) @@
    ("Water Saved" :> [factor |-> 3, unit |-> "liters"])

USER_ROLES == <<"Student", "Faculty/Staff", "Administration", "Eco-Club Lead">>

GENERATE_MOCK_DATA == TRUE

mock_users ==
    ("Aarav Sharma" :> "Student") @@ ("Kavya Singh" :> "Student") @@
    ("Rohan Mehta" :> "Student") @@ ("Priya Iyer" :> "Student") @@
    ("Sameer Verma" :> "Student") @@ ("Dr. Neelam Puri" :> "Faculty/Staff") @@
    ("Prof. Vijay Kumar" :> "Faculty/Staff") @@ ("Ms. Rina Das" :> "Administration") @@
    ("Anjali Reddy" :> "Eco-Club Lead")

\* nlargest(10)
TopN == 10

-----------------------------------------------------------------------------
(* Time *)

TicksPerSecond == 1 + 1
TicksPerMinute == 60 * TicksPerSecond
TicksPerHour == 60 * TicksPerMinute
TicksPerDay == 24 * TicksPerHour

\* timedelta(days=, hours=, minutes=)
timedelta(days, hours, minutes) ==
    days * TicksPerDay + hours * TicksPerHour + minutes * TicksPerMinute

\* t.strftime("%Y-%m-%d %H:%M:%S"): the text keeps whole seconds only
strftime(t) == [kind |-> "str", v |-> t \div TicksPerSecond]

\* pd.to_datetime on one cell: text is parsed, a datetime is kept
to_datetime(x) ==
    IF x.kind = "str" THEN [kind |-> "datetime", v |-> x.v * TicksPerSecond] ELSE x

\* Timestamp.date()
date(x) == x.v \div TicksPerDay

\* Values datetime.now() returns in the explored runs.  It is the naive local
\* wall clock, so a later call may return an earlier value.
Clock == {100 * TicksPerDay + 1, 101 * TicksPerDay + TicksPerHour}

-----------------------------------------------------------------------------
(* Inputs explored *)

\* The draws explored for one seeded row: name (line 88), activity (line 90)
\* and (days_ago, hours, minutes) (lines 109-110).
MockDrawSamples ==
    {<<"Aarav Sharma", "Trees planted", <<0, 0, 0>>>>,
     <<"Ms. Rina Das", "Trees planted", <<0, 0, 0>>>>,
     <<"Ms. Rina Das", "Trees planted", <<60, 23, 59>>>>,
     <<"Aarav Sharma", "Water Saved", <<60, 23, 59>>>>}
QuantitySamples == {100, 1000}

FormNames == {"", "Zoya Khan"}
FormRoles == {"Faculty/Staff", "Eco-Club Lead"}
FormActivities == {"Walk/Bike Commute"}
\* The handler tests quantity <= 0 itself, so non-positive values are explored
\* although the widget declares min_value=0.01.
FormQuantities == {0 - 100, 0, 100}

\* Every name the explored ledgers can hold, in Python's str order.
NameOrder == <<"Aarav Sharma", "Anjali Reddy", "Dr. Neelam Puri", "Kavya Singh",
               "Ms. Rina Das", "Priya Iyer", "Prof. Vijay Kumar", "Rohan Mehta",
               "Sameer Verma", "Zoya Khan">>

NameRank(n) == CHOOSE i \in DOMAIN NameOrder : NameOrder[i] = n

-----------------------------------------------------------------------------
(* Core logic *)

calculate_credits_wrong_credit(activity, quantity) ==
    LET factor == IF activity \in DOMAIN EMISSION_FACTORS
                  THEN EMISSION_FACTORS[activity].factor ELSE 0
    IN [raised |-> "none", co2_saved |-> quantity * factor, credits |-> quantity]

calculate_credits_strict(activity, quantity) ==
    IF activity \in DOMAIN EMISSION_FACTORS
    THEN [raised |-> "none",
          co2_saved |-> quantity * EMISSION_FACTORS[activity].factor,
          credits |-> quantity * EMISSION_FACTORS[activity].factor]
    ELSE [raised |-> "KeyError", co2_saved |-> 0, credits |-> 0]

\* EMISSION_FACTORS.get(activity, {"factor": 0})["factor"]; returns (co2_saved, co2_saved)
calculate_credits(activity, quantity) ==
    LET factor == IF activity \in DOMAIN EMISSION_FACTORS
                  THEN EMISSION_FACTORS[activity].factor ELSE 0
        co2_saved == quantity * factor
    IN [raised |-> "none", co2_saved |-> co2_saved, credits |-> co2_saved]

\* pd.DataFrame(columns=DATA_COLUMNS)
EmptyFrame == << >>

concat_prepend(a, b) == b \o a

\* pd.concat([a, b], ignore_index=True)
concat(a, b) == a \o b

NaN == "NaN"

\* pd.to_numeric(x, errors='coerce') on one cell
to_numeric(x) == IF x \in Int THEN x ELSE NaN

\* lines 70-71 over the whole frame
numeric_columns(df) ==
    [i \in DOMAIN df |->
        [df[i] EXCEPT !.co2_saved = to_numeric(@), !.credits = to_numeric(@)]]

\* st.session_state.data["Timestamp"] = pd.to_datetime(...)
timestamp_column(df) ==
    [i \in DOMAIN df |-> [df[i] EXCEPT !.timestamp = to_datetime(@)]]

Perms(n) == {p \in [1..n -> 1..n] : \A i, j \in 1..n : p[i] = p[j] => i = j}

-----------------------------------------------------------------------------
(* Mock seeder *)

Hundredths(lo, hi) == {q \in QuantitySamples : lo <= q /\ q <= hi}

mock_quantity_from_zero(activity) == {0}

\* lines 93-104: the quantity range of each activity, restricted to the samples
mock_quantity(activity) ==
    IF activity \in {"Electricity saved", "Solar power used"} THEN Hundredths(500, 5000)
    ELSE IF activity \in {"Walk/Bike Commute"} THEN Hundredths(100, 1500)
    ELSE IF activity \in {"Waste recycled"} THEN Hundredths(50, 1000)
    ELSE IF activity \in {"Trees planted"}
        THEN {q \in Hundredths(100, 500) : q % 100 = 0}
    ELSE IF activity \in {"Paper Saved"}
        THEN {q \in Hundredths(5000, 50000) : q % 100 = 0}
    ELSE {q \in Hundredths(1000, 20000) : q % 100 = 0}

\* lines 88-90 and 109-110: random.choice over the users and the activities,
\* randint(0, 60), randint(0, 23), randint(0, 59), restricted to the samples
mock_choices ==
    {c \in MockDrawSamples :
        /\ c[1] \in DOMAIN mock_users
        /\ c[2] \in DOMAIN EMISSION_FACTORS
        /\ c[3][1] \in 0..60 /\ c[3][2] \in 0..23 /\ c[3][3] \in 0..59}

\* What one iteration of the loop of lines 87-110 can draw.
MockDraws ==
    UNION {{[name |-> c[1], activity |-> c[2], quantity |-> q, offset |-> c[3]] :
                q \in mock_quantity(c[2])} : c \in mock_choices}

\* lines 106-114: the row appended for one draw
mock_row(d, uuid, end) ==
    LET c == calculate_credits(d.activity, d.quantity)
    IN [id |-> uuid,
        timestamp |-> strftime(end - timedelta(d.offset[1], d.offset[2], d.offset[3])),
        name |-> d.name, role |-> mock_users[d.name], activity |-> d.activity,
        quantity |-> d.quantity, co2_saved |-> c.co2_saved, credits |-> c.credits]

\* df.sort_values(by='Timestamp').reset_index(drop=True): the default sort
\* (quicksort) is not stable, so rows with equal timestamps come in any order.
sort_values_by_timestamp(df) ==
    {[i \in DOMAIN df |-> df[p[i]]] :
        p \in {q \in Perms(Len(df)) :
                \A i, j \in DOMAIN df : i < j => df[q[i]].timestamp.v <= df[q[j]].timestamp.v}}

\* lines 116-121: the frames populate_mock_data can leave in the session,
\* given the draws, the first unused uuid and end_date
populate_mock_data(old, draws, first_uuid, end) ==
    LET rows == [i \in DOMAIN draws |-> mock_row(draws[i], first_uuid + i, end)]
        df == timestamp_column(rows)
    IN {concat(old, sorted) : sorted \in sort_values_by_timestamp(df)}

-----------------------------------------------------------------------------
(* Aggregations of render_main_dashboard *)

RECURSIVE SumCredits(_)
\* df["Credits Generated"].sum()
SumCredits(df) == IF df = << >> THEN 0 ELSE df[1].credits + SumCredits(Tail(df))

\* The names of a groupby('Name'), in ascending order (groupby sorts its keys).
sorted_names(S) ==
    CHOOSE s \in [1..Cardinality(S) -> S] :
        \A i, j \in 1..Cardinality(S) : i < j => NameRank(s[i]) < NameRank(s[j])

\* The dates of a groupby('Timestamp_Date'), in ascending order.
sorted_dates(S) ==
    CHOOSE s \in [1..Cardinality(S) -> S] :
        \A i, j \in 1..Cardinality(S) : i < j => s[i] < s[j]

\* df.groupby('Name')['Credits Generated'].sum(): <<name, sum>> in name order
groupby_name(df) ==
    LET keys == sorted_names({df[i].name : i \in DOMAIN df})
    IN [k \in DOMAIN keys |->
           <<keys[k], SumCredits(SelectSeq(df, LAMBDA e : e.name = keys[k]))>>]

\* df.groupby('Timestamp_Date')['Credits Generated'].sum(): <<date, sum>> by date
groupby_date(df) ==
    LET keys == sorted_dates({date(df[i].timestamp) : i \in DOMAIN df})
    IN [k \in DOMAIN keys |->
           <<keys[k], SumCredits(SelectSeq(df, LAMBDA e : date(e.timestamp) = keys[k]))>>]

sort_values_ascending(series) ==
    {[i \in DOMAIN series |-> series[p[i]]] :
        p \in {q \in Perms(Len(series)) :
                \A i, j \in DOMAIN series : i < j => series[q[i]][2] <= series[q[j]][2]}}

\* Series.sort_values(ascending=False): the default sort (quicksort) is not
\* stable, so groups with equal sums come in any order.
sort_values_descending(series) ==
    {[i \in DOMAIN series |-> series[p[i]]] :
        p \in {q \in Perms(Len(series)) :
                \A i, j \in DOMAIN series : i < j => series[q[i]][2] >= series[q[j]][2]}}

\* The descending order that keeps equal sums in the order of the series.
stable_descending(series) ==
    LET p == CHOOSE q \in Perms(Len(series)) :
                \A i, j \in DOMAIN series : i < j =>
                    \/ series[q[i]][2] > series[q[j]][2]
                    \/ series[q[i]][2] = series[q[j]][2] /\ q[i] < q[j]
    IN [i \in DOMAIN series |-> series[p[i]]]

\* Series.head(n)
head(series, n) == SubSeq(series, 1, IF n < Len(series) THEN n ELSE Len(series))

\* Series.nlargest(n): sort_values(ascending=False).head(n) when n >= len,
\* else the n largest, the first occurrences kept among equal sums
nlargest(series, n) ==
    IF n >= Len(series)
    THEN {head(s, n) : s \in sort_values_descending(series)}
    ELSE {SubSeq(stable_descending(series), 1, n)}

no_cumsum(series) == series

RECURSIVE cumsum(_)
\* Series.cumsum()
cumsum(series) ==
    IF series = << >> THEN << >>
    ELSE LET init == cumsum(SubSeq(series, 1, Len(series) - 1))
             last == series[Len(series)]
         IN Append(init, <<last[1], last[2] + (IF init = << >> THEN 0 ELSE init[Len(init)][2])>>)

\* lines 383-385
cumulative_timeline(df) == cumsum(groupby_date(df))

RolesOf(df) == {df[i].role : i \in DOMAIN df}
ActivitiesOf(df) == {df[i].activity : i \in DOMAIN df}

\* df.pivot_table(index='Activity', columns='Role', values='Credits Generated',
\* aggfunc='sum').fillna(0): a column per role that has an entry
pivot_table(df) ==
    [a \in ActivitiesOf(df) |->
        [r \in RolesOf(df) |->
            SumCredits(SelectSeq(df, LAMBDA e : e.activity = a /\ e.role = r))]]

Range(f) == {f[x] : x \in DOMAIN f}

\* pivot.melt(id_vars='Activity', value_vars=USER_ROLES): KeyError when a role
\* of USER_ROLES is no column of the pivot
melt(df) ==
    IF \E r \in Range(USER_ROLES) : r \notin RolesOf(df)
    THEN [raised |-> "KeyError", rows |-> << >>]
    ELSE [raised |-> "none",
          rows |-> [cell \in Range(USER_ROLES) \X ActivitiesOf(df) |->
                        pivot_table(df)[cell[2]][cell[1]]]]

-----------------------------------------------------------------------------
(* The session: one script thread, run after run *)

NotRendered == "not rendered"

NoCall == [pc |-> "none", activity |-> "", quantity |-> 0, result |-> "none"]

NoTip == [pc |-> "none"]

NameError == "Please enter your name."
QuantityError == "Quantity must be greater than zero."
Logged == "Logged"
ErrorMessages == {NameError, QuantityError}

Init ==
    /\ has_data = FALSE
    /\ data = EmptyFrame
    /\ data_reset = FALSE
    /\ uuid_count = 0
    /\ end_date = 0
    /\ pc = "init"
    /\ trigger = "rerun"
    /\ message = "none"
    /\ total_credits = NotRendered
    /\ top_contributor = NotRendered
    /\ user_leaderboard_data = NotRendered
    /\ cumulative_credits = NotRendered
    /\ role_activity_melted = NotRendered
    /\ dashboard_error = "none"
    /\ call = NoCall
    /\ tip = NoTip

\* A new run of the script replaces what the previous run rendered.
StartRun(event) ==
    /\ pc = "idle"
    /\ pc' = "init"
    /\ trigger' = event
    /\ message' = "none"
    /\ total_credits' = NotRendered
    /\ top_contributor' = NotRendered
    /\ user_leaderboard_data' = NotRendered
    /\ cumulative_credits' = NotRendered
    /\ role_activity_melted' = NotRendered
    /\ dashboard_error' = "none"
    /\ UNCHANGED <<has_data, data, uuid_count, end_date, call, tip>>

\* Any interaction that reruns the script and is neither button.
Rerun ==
    /\ StartRun("rerun")
    /\ UNCHANGED data_reset

\* "Reset All Data": the callback runs first, then the script reruns.
reset_data_callback ==
    /\ uuid_count + num_entries <= MaxUuid
    /\ StartRun("reset")
    /\ data_reset' = TRUE

\* "Log Contribution": the form's submit button.
ClickLogContribution ==
    /\ uuid_count < MaxUuid
    /\ StartRun("submit")
    /\ UNCHANGED data_reset

needs_init_first_run_only == ~has_data

\* line 58
needs_init == ~has_data \/ data_reset

initialize_data ==
    /\ pc = "init"
    /\ IF needs_init
       THEN /\ IF GENERATE_MOCK_DATA
               THEN \E end \in Clock, draws \in [1..num_entries -> MockDraws] :
                       /\ data' \in {numeric_columns(df) :
                                       df \in populate_mock_data(EmptyFrame, draws, uuid_count, end)}
                       /\ uuid_count' = uuid_count + num_entries
                       /\ end_date' = end
               ELSE /\ data' = numeric_columns(EmptyFrame)
                    /\ UNCHANGED <<uuid_count, end_date>>
            /\ has_data' = TRUE
            /\ data_reset' = FALSE
       ELSE /\ data' = numeric_columns(data)
            /\ UNCHANGED <<has_data, data_reset, uuid_count, end_date>>
    /\ pc' = "form"
    /\ UNCHANGED <<trigger, message, view_vars, call, tip>>

name_missing(name) == name = ""

quantity_rejected_negative_only(quantity) == quantity < 0

\* line 261
quantity_rejected(quantity) == quantity <= 0

\* lines 258-281 with the widget values and the clock as read by this run
SubmitForm(name, role, activity, quantity, now) ==
    /\ pc = "form"
    /\ trigger = "submit"
    /\ IF name_missing(name)
       THEN /\ message' = NameError
            /\ UNCHANGED ledger_vars
       ELSE IF quantity_rejected(quantity)
       THEN /\ message' = QuantityError
            /\ UNCHANGED ledger_vars
       ELSE LET c == calculate_credits(activity, quantity)
                new_entry == <<[id |-> uuid_count + 1, timestamp |-> strftime(now),
                                name |-> name, role |-> role, activity |-> activity,
                                quantity |-> quantity, co2_saved |-> c.co2_saved,
                                credits |-> c.credits]>>
            IN /\ data' = timestamp_column(concat(data, new_entry))
               /\ uuid_count' = uuid_count + 1
               /\ message' = Logged
               /\ UNCHANGED <<has_data, data_reset, end_date>>
    /\ pc' = "dashboard"
    /\ UNCHANGED <<trigger, view_vars, call, tip>>

render_sidebar_form ==
    \/ \E name \in FormNames, role \in FormRoles \cap Range(USER_ROLES),
          activity \in FormActivities \cap DOMAIN EMISSION_FACTORS,
          quantity \in FormQuantities, now \in Clock :
            SubmitForm(name, role, activity, quantity, now)
    \/ /\ pc = "form"
       /\ trigger # "submit"
       /\ pc' = "dashboard"
       /\ UNCHANGED <<ledger_vars, trigger, message, view_vars, call, tip>>

render_main_dashboard ==
    /\ pc = "dashboard"
    /\ total_credits' = SumCredits(data)
    /\ IF Len(data) > 0
       THEN /\ \E leaderboard \in sort_values_descending(groupby_name(data)) :
                   top_contributor' = leaderboard[1][1]
            /\ user_leaderboard_data' \in nlargest(groupby_name(data), TopN)
            /\ cumulative_credits' = cumulative_timeline(data)
            /\ role_activity_melted' = melt(data).rows
            /\ dashboard_error' = melt(data).raised
       ELSE /\ top_contributor' = "N/A"
            /\ UNCHANGED <<user_leaderboard_data, cumulative_credits,
                           role_activity_melted, dashboard_error>>
    /\ pc' = "idle"
    /\ UNCHANGED <<ledger_vars, trigger, message, call, tip>>

Next ==
    \/ Rerun
    \/ reset_data_callback
    \/ ClickLogContribution
    \/ initialize_data
    \/ render_sidebar_form
    \/ render_main_dashboard

Spec == Init /\ [][Next]_vars

-----------------------------------------------------------------------------
(* calculate_credits on its own: any activity text, any quantity *)

CalcActivities == DOMAIN EMISSION_FACTORS \cup {"Car pooling", ""}
CalcQuantities == {0 - 100, 0, 1, 100, 250, 1000, 5000}

InitCalc ==
    /\ has_data = FALSE
    /\ data = EmptyFrame
    /\ data_reset = FALSE
    /\ uuid_count = 0
    /\ end_date = 0
    /\ pc = "calc"
    /\ trigger = "none"
    /\ message = "none"
    /\ total_credits = NotRendered
    /\ top_contributor = NotRendered
    /\ user_leaderboard_data = NotRendered
    /\ cumulative_credits = NotRendered
    /\ role_activity_melted = NotRendered
    /\ dashboard_error = "none"
    /\ call \in {[pc |-> "called", activity |-> a, quantity |-> q, result |-> "none"] :
                    a \in CalcActivities, q \in CalcQuantities}
    /\ tip = NoTip

CallCalculateCredits ==
    /\ call.pc = "called"
    /\ call' = [call EXCEPT !.pc = "returned",
                            !.result = calculate_credits(call.activity, call.quantity)]
    /\ UNCHANGED <<ledger_vars, pc, trigger, message, view_vars, tip>>

NextCalc == CallCalculateCredits

SpecCalc == InitCalc /\ [][NextCalc]_vars

-----------------------------------------------------------------------------
(* generate_personalized_tip on its own: the key, the role, the ledger, the    *)
(* requests build and what the remote end answers are the inputs               *)

\* max_retries = 3
max_retries == 3

\* The activities in Python's str order (groupby('Activity') sorts its keys).
ActivityOrder == <<"Electricity saved", "Paper Saved", "Solar power used",
                   "Trees planted", "Walk/Bike Commute", "Waste recycled", "Water Saved">>

ActivityRank(a) == CHOOSE i \in DOMAIN ActivityOrder : ActivityOrder[i] = a

CreditsOfActivity(df, a) == SumCredits(SelectSeq(df, LAMBDA e : e.activity = a))

\* current_df.groupby('Activity')['Credits Generated'].sum().idxmax(): the
\* first of the largest sums, in key order
top_activity(df) ==
    CHOOSE a \in ActivitiesOf(df) : \A b \in ActivitiesOf(df) :
        \/ CreditsOfActivity(df, a) > CreditsOfActivity(df, b)
        \/ /\ CreditsOfActivity(df, a) = CreditsOfActivity(df, b)
           /\ ActivityRank(a) <= ActivityRank(b)

Str(v) == [type |-> "str", value |-> v]
None == [type |-> "None", value |-> "None"]

NoKeyMessage == Str("Gemini API key not found in Streamlit secrets. Cannot generate suggestions.")
NoDataMessage == Str("Log some data first to get personalized tips!")
NoSuggestion == "No suggestion generated."
\* the text of line 196, but for the details, which are kept in last_error
RetryError == Str("Error: Failed to generate tip after multiple retries.")

NotJson == [html |-> "<html>"]
EmptyDict == << >>

\* d.get(k, default) on a dict
Get(d, k, default) == IF k \in DOMAIN d THEN d[k] ELSE default

\* line 183: result.get('candidates', [{}])[0].get('content', {})
\*               .get('parts', [{}])[0].get('text', 'No suggestion generated.')
extract_text(result) ==
    LET candidates == Get(result, "candidates", <<EmptyDict>>)
    IN IF Len(candidates) = 0 THEN [raised |-> "IndexError", text |-> ""]
       ELSE LET parts == Get(Get(candidates[1], "content", EmptyDict), "parts", <<EmptyDict>>)
            IN IF Len(parts) = 0 THEN [raised |-> "IndexError", text |-> ""]
               ELSE [raised |-> "none", text |-> Get(parts[1], "text", NoSuggestion)]

\* What one requests.post can meet: an exception of the transport, or a
\* response with a status and a body.
Responses ==
    {[exception |-> "ConnectionError", status_code |-> 0, is_json |-> FALSE, body |-> NotJson],
     [exception |-> "none", status_code |-> 503, is_json |-> FALSE, body |-> NotJson],
     [exception |-> "none", status_code |-> 200, is_json |-> FALSE, body |-> NotJson],
     [exception |-> "none", status_code |-> 200, is_json |-> TRUE,
      body |-> [candidates |-> <<[content |-> [parts |-> <<[text |-> "Plant a tree."]>>]]>>]],
     [exception |-> "none", status_code |-> 200, is_json |-> TRUE,
      body |-> [promptFeedback |-> "blocked"]],
     [exception |-> "none", status_code |-> 200, is_json |-> TRUE,
      body |-> [candidates |-> <<[finishReason |-> "SAFETY"]>>]],
     [exception |-> "none", status_code |-> 200, is_json |-> TRUE,
      body |-> [candidates |-> << >>]],
     [exception |-> "none", status_code |-> 200, is_json |-> TRUE,
      body |-> [candidates |-> <<[content |-> [parts |-> << >>]]>>]]}

\* The class response.json() raises on a body that is no JSON: a
\* RequestException since requests 2.27, a plain ValueError before.
JsonErrorClasses == {"RequestException", "ValueError"}

\* Lines 166-184: what the try block of one attempt does with a response;
\* class is the class the except clause of line 186 tests.
try_block(r, json_error_class) ==
    IF r.exception # "none"
    THEN [class |-> "RequestException", raised |-> r.exception, text |-> ""]
    ELSE IF r.status_code >= 400
    THEN [class |-> "RequestException", raised |-> "HTTPError", text |-> ""]
    ELSE IF ~r.is_json
    THEN [class |-> json_error_class, raised |-> "JSONDecodeError", text |-> ""]
    ELSE [class |-> extract_text(r.body).raised, raised |-> extract_text(r.body).raised,
          text |-> extract_text(r.body).text]

RECURSIVE Pow2(_)
\* 2 ** attempt
Pow2(n) == IF n = 0 THEN 1 ELSE 2 * Pow2(n - 1)

\* The frames the function is called with: none, or a seeded ledger.
TipLedgers ==
    {EmptyFrame} \cup
    UNION {{numeric_columns(df) : df \in populate_mock_data(EmptyFrame, draws, 0, end)} :
            draws \in [1..num_entries -> MockDraws], end \in Clock}

NoQuery == [role |-> "none", total_credits |-> 0, top_activity |-> "none"]

InitTip ==
    /\ has_data = TRUE
    /\ data \in TipLedgers
    /\ data_reset = FALSE
    /\ uuid_count = Len(data)
    /\ end_date = 0
    /\ pc = "tip"
    /\ trigger = "none"
    /\ message = "none"
    /\ total_credits = NotRendered
    /\ top_contributor = NotRendered
    /\ user_leaderboard_data = NotRendered
    /\ cumulative_credits = NotRendered
    /\ role_activity_melted = NotRendered
    /\ dashboard_error = "none"
    /\ call = NoCall
    /\ tip \in {[pc |-> "called", API_KEY |-> k, user_role |-> r, json_error_class |-> j,
                 query |-> NoQuery, attempt |-> 0, posts |-> 0, failures |-> 0,
                 warnings |-> 0, slept |-> 0, last_text |-> "none", last_error |-> "none",
                 returned |-> None, raised |-> "none"] :
                    k \in BOOLEAN, r \in Range(USER_ROLES), j \in JsonErrorClasses}

\* lines 135-161: the two early returns, then the prompt
TipEnter ==
    /\ tip.pc = "called"
    /\ tip' = IF ~tip.API_KEY
              THEN [tip EXCEPT !.pc = "returned", !.returned = NoKeyMessage]
              ELSE IF Len(data) = 0
              THEN [tip EXCEPT !.pc = "returned", !.returned = NoDataMessage]
              ELSE [tip EXCEPT !.pc = "loop",
                               !.query = [role |-> tip.user_role,
                                          total_credits |-> SumCredits(data),
                                          top_activity |-> top_activity(data)]]
    /\ UNCHANGED <<ledger_vars, pc, trigger, message, view_vars, call>>

\* lines 186-196: the except clause of attempt t.attempt, for exception e
except_request_exception(t, e) ==
    IF t.attempt < max_retries - 1
    THEN [t EXCEPT !.failures = @ + 1, !.warnings = @ + 1, !.last_error = e,
                   !.slept = @ + Pow2(t.attempt), !.attempt = @ + 1]
    ELSE [t EXCEPT !.failures = @ + 1, !.pc = "returned", !.last_error = e,
                   !.returned = RetryError]

\* lines 165-196: one pass of the loop body with the response r
attempt_with(t, r) ==
    LET posted == [t EXCEPT !.posts = @ + 1]
        outcome == try_block(r, t.json_error_class)
    IN IF outcome.class = "none"
       THEN [posted EXCEPT !.pc = "returned", !.last_text = outcome.text,
                           !.returned = Str(outcome.text)]
       ELSE IF outcome.class = "RequestException"
       THEN except_request_exception(posted, outcome.raised)
       ELSE [posted EXCEPT !.pc = "raised", !.raised = outcome.raised]

\* One iteration of `for attempt in range(max_retries)`; a loop that runs out
\* falls off the end of the function, which returns None.
TipAttempt ==
    /\ tip.pc = "loop"
    /\ IF tip.attempt < max_retries
       THEN \E r \in Responses : tip' = attempt_with(tip, r)
       ELSE tip' = [tip EXCEPT !.pc = "returned", !.returned = None]
    /\ UNCHANGED <<ledger_vars, pc, trigger, message, view_vars, call>>

NextTip ==
    \/ TipEnter
    \/ TipAttempt

SpecTip == InitTip /\ [][NextTip]_vars

-----------------------------------------------------------------------------
(* Properties *)

Ids(df) == {df[i].id : i \in DOMAIN df}

IsPrefix(a, b) == Len(a) <= Len(b) /\ \A i \in DOMAIN a : b[i] = a[i]

\* The dashboard of the current ledger has been rendered.
Rendered == pc = "idle" /\ Len(data) > 0

\* C1: every entry of the ledger, seeded or submitted, before or after a reset,
\* has credits equal to co2_saved, and both equal quantity times the emission
\* factor of the entry's activity.
C1_CreditsEqualCo2 ==
    \A i \in DOMAIN data :
        /\ data[i].credits = data[i].co2_saved
        /\ data[i].activity \in DOMAIN EMISSION_FACTORS
        /\ data[i].co2_saved = data[i].quantity * EMISSION_FACTORS[data[i].activity].factor

\* A ledger seeded after a reset that has then taken a live submission.
C1_Witness ==
    /\ pc = "idle"
    /\ Len(data) > num_entries
    /\ uuid_count > Len(data)

\* C2: a submission whose name is empty or whose quantity is <= 0 renders an
\* error message and leaves the ledger (and the uuid count) exactly as it was.
C2_RejectedSubmissionKeepsLedger ==
    [][\A name \in FormNames, role \in FormRoles, activity \in FormActivities,
          quantity \in FormQuantities, now \in Clock :
            (SubmitForm(name, role, activity, quantity, now) /\ (name = "" \/ quantity <= 0))
                => /\ data' = data
                   /\ uuid_count' = uuid_count
                   /\ message' \in ErrorMessages]_vars

\* A submission with quantity 0 has just been rejected.
C2_Witness ==
    /\ pc = "dashboard"
    /\ trigger = "submit"
    /\ message = QuantityError

\* What a reset leaves: num_entries seeded rows, none of them a row of the old
\* ledger (or nothing, when seeding is off).
FreshSeed(old, new) ==
    IF GENERATE_MOCK_DATA
    THEN /\ Len(new) = num_entries
         /\ Ids(new) \cap Ids(old) = {}
         /\ \A i \in DOMAIN new :
                /\ new[i].name \in DOMAIN mock_users
                /\ new[i].role = mock_users[new[i].name]
    ELSE new = << >>

\* C3: the initialize_data that follows a reset request replaces the ledger by
\* freshly seeded rows only, and clears the request; every reader of that run
\* reads exactly that seed, and no reader ever runs while a reset is pending or
\* sees fewer rows than one seeding makes.
C3_ResetYieldsFreshSeed ==
    /\ [][(pc = "init" /\ data_reset)
            => (pc' = "form" /\ ~data_reset' /\ FreshSeed(data, data'))]_vars
    /\ []((pc \in {"form", "dashboard", "idle"} /\ trigger = "reset")
            => (/\ FreshSeed(<< >>, data)
                /\ Ids(data) = (uuid_count - Len(data) + 1)..uuid_count))
    /\ [](pc \in {"form", "dashboard", "idle"}
            => (~data_reset /\ (GENERATE_MOCK_DATA => Len(data) >= num_entries)))

\* The dashboard reads the ledger of a reset that discarded a live submission.
C3_Witness ==
    /\ pc = "dashboard"
    /\ trigger = "reset"
    /\ uuid_count > 2 * num_entries

\* C4: but for the whole-ledger reset, every step keeps the rows of the ledger,
\* unmodified and in order, and an accepted submission adds exactly one row,
\* the submitted one, at the end.
C4_AppendOnly ==
    [][/\ ~(pc = "init" /\ data_reset) => IsPrefix(data, data')
       /\ \A name \in FormNames, role \in FormRoles, activity \in FormActivities,
             quantity \in FormQuantities, now \in Clock :
            (SubmitForm(name, role, activity, quantity, now) /\ name # "" /\ quantity > 0)
                => /\ Len(data') = Len(data) + 1
                   /\ SubSeq(data', 1, Len(data)) = data
                   /\ data'[Len(data')].name = name
                   /\ data'[Len(data')].role = role
                   /\ data'[Len(data')].activity = activity
                   /\ data'[Len(data')].quantity = quantity
                   /\ data'[Len(data')].id \notin Ids(data)]_vars

\* Two submissions have been accepted on top of a seed.
C4_Witness ==
    /\ pc = "dashboard"
    /\ message = Logged
    /\ Len(data) = num_entries + 2

\* C5: every entry of the ledger has quantity > 0.
C5_QuantityPositive == \A i \in DOMAIN data : data[i].quantity > 0

\* The ledger holds seeded rows and an accepted live submission.
C5_Witness ==
    /\ pc = "idle"
    /\ message = Logged
    /\ Len(data) > num_entries
    /\ \E i \in DOMAIN data : data[i].name \notin DOMAIN mock_users

Unknown(activity) == activity \notin DOMAIN EMISSION_FACTORS

\* C6 as claimed: calculate_credits on an activity that is no key of the
\* emission factor table fails with InvalidActivity.
C6_UnknownActivityFails ==
    (call.pc = "returned" /\ Unknown(call.activity))
        => call.result.raised = "InvalidActivity"

\* C6 as amended: on an activity that is no key of the table calculate_credits
\* raises nothing and returns (0, 0), the result of a zero factor.
C6_UnknownActivityYieldsZero ==
    (call.pc = "returned" /\ Unknown(call.activity))
        => /\ call.result.raised = "none"
           /\ call.result.co2_saved = 0
           /\ call.result.credits = 0

\* calculate_credits has returned for an unknown activity and a positive quantity.
C6_Witness ==
    /\ call.pc = "returned"
    /\ call.activity = "Car pooling"
    /\ call.quantity = 250

NamesOf(df) == {df[i].name : i \in DOMAIN df}

CreditsOfName(df, n) == SumCredits(SelectSeq(df, LAMBDA e : e.name = n))

FirstEntry(df, n) == CHOOSE i \in DOMAIN df : df[i].name = n /\ \A j \in 1..(i - 1) : df[j].name # n

Min(a, b) == IF a < b THEN a ELSE b

\* The leaderboard lists min(10, actors) distinct actors, each with the sum of
\* its credits, in descending order of the sums.
DescendingLeaderboard(lb, df) ==
    /\ Len(lb) = Min(TopN, Cardinality(NamesOf(df)))
    /\ \A i \in DOMAIN lb : lb[i][1] \in NamesOf(df) /\ lb[i][2] = CreditsOfName(df, lb[i][1])
    /\ \A i, j \in DOMAIN lb : i < j => lb[i][1] # lb[j][1] /\ lb[i][2] >= lb[j][2]
    /\ \A n \in NamesOf(df) : \A i \in DOMAIN lb :
            (\A k \in DOMAIN lb : lb[k][1] # n) => lb[i][2] >= CreditsOfName(df, n)

\* C7 as claimed: the leaderboard is in descending order of summed credits, and
\* of two actors with equal sums the one whose first entry comes earlier in
\* the ledger is listed first.
C7_TiesInFirstEncounteredOrder ==
    Rendered =>
        /\ DescendingLeaderboard(user_leaderboard_data, data)
        /\ \A i, j \in DOMAIN user_leaderboard_data :
            (i < j /\ user_leaderboard_data[i][2] = user_leaderboard_data[j][2])
                => FirstEntry(data, user_leaderboard_data[i][1])
                    < FirstEntry(data, user_leaderboard_data[j][1])

\* C7 as amended: the leaderboard lists the actors, each once with the sum of
\* its credits, in descending order of the sums, and the top contributor has
\* the largest sum; the order of actors with equal sums is not fixed.
C7_LeaderboardDescending ==
    Rendered =>
        /\ DescendingLeaderboard(user_leaderboard_data, data)
        /\ top_contributor \in NamesOf(data)
        /\ \A n \in NamesOf(data) :
                CreditsOfName(data, top_contributor) >= CreditsOfName(data, n)

\* A rendered leaderboard of three actors, two of them with equal sums.
C7_Witness ==
    /\ Rendered
    /\ Len(user_leaderboard_data) = 3
    /\ \E i, j \in DOMAIN user_leaderboard_data :
            i # j /\ user_leaderboard_data[i][2] = user_leaderboard_data[j][2]

\* C8: the cumulative timeline of a non-empty ledger, in whatever order its
\* entries were inserted, has one point per date, dates ascending, cumulative
\* values non-decreasing, the last one equal to the total of all credits.
C8_TimelineCumulative ==
    Rendered =>
        LET tl == cumulative_credits
        IN /\ Len(tl) = Cardinality({date(data[i].timestamp) : i \in DOMAIN data})
           /\ \A k \in DOMAIN tl : \E i \in DOMAIN data : date(data[i].timestamp) = tl[k][1]
           /\ \A k \in DOMAIN tl : k > 1 => tl[k - 1][1] < tl[k][1] /\ tl[k - 1][2] <= tl[k][2]
           /\ tl[Len(tl)][2] = total_credits
           /\ total_credits = SumCredits(data)

\* A rendered timeline of several dates for a ledger whose insertion order is
\* not chronological.
C8_Witness ==
    /\ Rendered
    /\ Len(cumulative_credits) >= 3
    /\ \E i, j \in DOMAIN data : i < j /\ data[i].timestamp.v > data[j].timestamp.v

\* C9 as claimed: for every non-empty ledger, also when a role of USER_ROLES
\* has no entry, the role x activity breakdown raises no error and holds, for
\* every (role, activity) with an entry, the sum of that pair's credits.
C9_BreakdownNeverRaises ==
    Rendered =>
        /\ dashboard_error = "none"
        /\ \A i \in DOMAIN data :
            LET cell == <<data[i].role, data[i].activity>>
            IN /\ cell \in DOMAIN role_activity_melted
               /\ role_activity_melted[cell] =
                    SumCredits(SelectSeq(data,
                        LAMBDA e : e.role = cell[1] /\ e.activity = cell[2]))

\* C10 as claimed: every seeded entry has a timestamp no later than the
\* seeding's now and no more than 60 days before it.
C10_SeededWithin60Days ==
    (has_data /\ GENERATE_MOCK_DATA) =>
        \A i \in 1..num_entries :
            /\ data[i].timestamp.v <= end_date
            /\ data[i].timestamp.v >= end_date - timedelta(60, 0, 0)

\* The call has passed both early returns: a key is configured and the ledger
\* is not empty.
TipCalledRemote == tip.pc \in {"loop", "returned", "raised"} /\ tip.API_KEY /\ Len(data) > 0

\* The retry loop alone: never a 4th post, one post per failure until the call
\* ends, a return straight after the first success, the error string only
\* after max_retries failures, and never the None of a loop that ran out.
TipRetryBounded ==
    TipCalledRemote =>
        /\ tip.posts <= max_retries
        /\ tip.pc = "loop" => tip.posts = tip.attempt /\ tip.failures = tip.posts
        /\ tip.pc = "returned" =>
            /\ tip.returned # None
            /\ \/ tip.returned = Str(tip.last_text) /\ tip.failures = tip.posts - 1
               \/ tip.returned = RetryError /\ tip.failures = max_retries
                                            /\ tip.posts = max_retries

\* C11: with an API key configured and a non-empty ledger,
\* generate_personalized_tip makes at most 3 remote attempts and never ends
\* without returning a string: it returns the advice text of the first attempt
\* that succeeds, with no attempt after it, or the error string when all 3
\* attempts have failed; no exception leaves the function.
C11_TipReturnsString ==
    TipCalledRemote =>
        /\ tip.posts <= max_retries
        /\ tip.pc # "raised"
        /\ tip.pc = "returned" =>
            /\ tip.returned.type = "str"
            /\ \/ tip.returned = Str(tip.last_text) /\ tip.failures = tip.posts - 1
               \/ tip.returned = RetryError /\ tip.failures = max_retries
                                            /\ tip.posts = max_retries

=============================================================================
